---- MODULE Spec2Model ----
(***************************************************************************)
(* Model of the HCP interaction normalisation pipelines of mr_project:     *)
(* the shared date helpers (utils/dates.py), the four normalisers          *)
(* (pipelines/call.py, edetail.py, events.py, vae.py), the merge stage     *)
(* (pipelines/hco_promotion.py) and the sequential driver (main.py).       *)
(*                                                                         *)
(* Data representation.  A text value is the sequence of its character     *)
(* codes, so that formatting, parsing and the lexicographic comparison of  *)
(* YRMO keys are computed and not assumed.  NaN (a one-element sequence    *)
(* holding code 0) is the missing text value.  A parsed date is a record   *)
(* [y, m, d]; NaT is the missing date.  Identifiers are integers and       *)
(* channel / action / product names are strings with NA as the missing     *)
(* name.  A table is the sequence of its rows, each row a record; the      *)
(* column ACTION is written r["ACTION"], ACTION being a reserved word.     *)
(*                                                                         *)
(* pandas semantics are those of pandas 2.x, the first series that has     *)
(* format="mixed" (edetail.py:39): a Period NaT renders as the text "NaT". *)
(* Without a format, pd.to_datetime guesses one from the first non-missing  *)
(* cell of the column and parses every cell with it.                       *)
(***************************************************************************)
EXTENDS Integers, Sequences, FiniteSets, TLC

VARIABLES
    pc,         \* position of the function or driver under execution
    name,       \* the function or pipeline the behaviour exercises
    raw,        \* the input table(s) as returned by read_table
    cfg,        \* the configuration dictionary
    mid,        \* intermediate tables of the run (for inspection)
    out,        \* the returned / written table
    err,        \* "" or the name of the exception that escaped
    files,      \* main: the output files, by pipeline name
    completed   \* main: pipelines that logged "Completed", in order

vars == <<pc, name, raw, cfg, mid, out, err, files, completed>>

\* ---------------------------------------------------------------- bounds
MaxRows == 3
MaxMonths == 3

\* ---------------------------------------------------------------- text
NaN == <<0>>
NaTStr == <<78, 97, 84>>
Dash == <<45>>
Slash == <<47>>
Digit(n) == <<48 + n>>

IsDigits(s) == \A i \in 1..Len(s) : s[i] \in 48..57

RECURSIVE Num(_)
Num(s) == IF s = <<>> THEN 0
          ELSE 10 * Num(SubSeq(s, 1, Len(s) - 1)) + (s[Len(s)] - 48)

Fmt2(n) == Digit((n \div 10) % 10) \o Digit(n % 10)
Fmt4(n) == Digit((n \div 1000) % 10) \o Digit((n \div 100) % 10)
           \o Digit((n \div 10) % 10) \o Digit(n % 10)

\* Python's str < str : lexicographic on code points
RECURSIVE StrLT(_, _)
StrLT(a, b) ==
    IF b = <<>> THEN FALSE
    ELSE IF a = <<>> THEN TRUE
    ELSE IF a[1] # b[1] THEN a[1] < b[1]
    ELSE StrLT(Tail(a), Tail(b))

StrGE(a, b) == ~StrLT(a, b)

\* ---------------------------------------------------------------- dates
NaT == [y |-> 0, m |-> 0, d |-> 0]

IsLeap(y) == (y % 4 = 0 /\ y % 100 # 0) \/ y % 400 = 0
DaysInMonth(y, m) ==
    IF m = 2 THEN (IF IsLeap(y) THEN 29 ELSE 28)
    ELSE IF m \in {4, 6, 9, 11} THEN 30 ELSE 31

Timestamp(y, m, d) ==
    IF y >= 1 /\ m \in 1..12 /\ d \in 1..DaysInMonth(y, m)
    THEN [y |-> y, m |-> m, d |-> d] ELSE NaT

\* "YYYY-MM-DD"
ParseIso(s) ==
    IF /\ Len(s) = 10
       /\ s[5] = 45 /\ s[8] = 45
       /\ IsDigits(SubSeq(s, 1, 4)) /\ IsDigits(SubSeq(s, 6, 7))
       /\ IsDigits(SubSeq(s, 9, 10))
    THEN Timestamp(Num(SubSeq(s, 1, 4)), Num(SubSeq(s, 6, 7)),
                   Num(SubSeq(s, 9, 10)))
    ELSE NaT

\* "MM/DD/YYYY" (month first: dayfirst=False)
ParseUs(s) ==
    IF /\ Len(s) = 10
       /\ s[3] = 47 /\ s[6] = 47
       /\ IsDigits(SubSeq(s, 1, 2)) /\ IsDigits(SubSeq(s, 4, 5))
       /\ IsDigits(SubSeq(s, 7, 10))
    THEN Timestamp(Num(SubSeq(s, 7, 10)), Num(SubSeq(s, 1, 2)),
                   Num(SubSeq(s, 4, 5)))
    ELSE NaT

\* pd.to_datetime(series, errors="coerce") on one text cell of a column
\* written in ISO form: a cell that does not parse becomes NaT
to_datetime(v) == IF v = NaN THEN NaT ELSE ParseIso(v)

\* pd.to_datetime(..., format="mixed", dayfirst=False, errors="coerce") on one
\* cell: each cell is parsed on its own, in ISO or month-first form
\* the parse of a cell that is tried in ISO form, then in month-first form
FirstParsed(iso, us) == IF iso # NaT THEN iso ELSE us

to_datetime_mixed(v) ==
    IF v = NaN THEN NaT ELSE FirstParsed(ParseIso(v), ParseUs(v))

Column(df, col) == [i \in 1..Len(df) |-> df[i][col]]

\* the format pandas guesses from one cell, given its parse in ISO and in
\* month-first form; "" when it can guess none
GuessFormat(iso, us) ==
    IF iso # NaT THEN "%Y-%m-%d" ELSE IF us # NaT THEN "%m/%d/%Y" ELSE ""

\* the parse of a cell under the guessed format; with no format each cell is
\* parsed on its own
ParseAs(fmt, iso, us) ==
    CASE fmt = "%Y-%m-%d" -> iso
      [] fmt = "%m/%d/%Y" -> us
      [] OTHER            -> FirstParsed(iso, us)

\* pd.to_datetime(series, errors="coerce") on a text column: the format is
\* guessed from the first non-missing cell and every cell is parsed with it,
\* a cell that does not match becoming NaT
to_datetime_series(col) ==
    LET present == {i \in 1..Len(col) : col[i] # NaN}
        first   == CHOOSE i \in present : \A j \in present : i <= j
        fmt     == IF present = {} THEN ""
                   ELSE GuessFormat(ParseIso(col[first]), ParseUs(col[first]))
    IN  [i \in 1..Len(col) |->
            IF col[i] = NaN THEN NaT
            ELSE ParseAs(fmt, ParseIso(col[i]), ParseUs(col[i]))]

\* pd.to_datetime on a column of the given dtype: a datetime64 column is
\* returned as it is, a text column is parsed
to_datetime_col(col, dtype) ==
    IF dtype = "datetime64" THEN col ELSE to_datetime_series(col)

\* Series.dt.strftime("%Y-%m-%d"): NaT gives a missing value
strftime_ymd(t) ==
    IF t = NaT THEN NaN
    ELSE Fmt4(t.y) \o Dash \o Fmt2(t.m) \o Dash \o Fmt2(t.d)

\* mutant: the month is written without its leading zero
PeriodStr_Unpadded(t) ==
    IF t = NaT THEN NaTStr ELSE Fmt4(t.y) \o Dash \o Digit(t.m % 10)

\* Series.dt.to_period("M").astype(str) on one cell
PeriodStr(t) == IF t = NaT THEN NaTStr ELSE Fmt4(t.y) \o Dash \o Fmt2(t.m)

\* df[col] = value for one row (adds or overwrites the column)
SetCol(r, col, v) ==
    [c \in DOMAIN r \cup {col} |-> IF c = col THEN v ELSE r[c]]

\* df[[cols]] for one row
Project(r, cols) == [c \in cols |-> r[c]]

\* dtype : the dtype of the ACTIVITY_DATE column
add_yrmo(df, dtype) ==
    LET dates == to_datetime_col(Column(df, "ACTIVITY_DATE"), dtype)
    IN  [i \in 1..Len(df) |-> SetCol(df[i], "YRMO", PeriodStr(dates[i]))]

\* ---------------------------------------------------------------- retention
DefaultMonths == 7

\* Series.max(): the greatest non-missing value, missing when there is none
SeriesMax(col) ==
    LET vals == {col[i] : i \in {j \in 1..Len(col) : col[j] # NaN}}
    IN  IF vals = {} THEN NaN
        ELSE CHOOSE v \in vals : \A w \in vals : ~StrLT(v, w)

\* datetime.strptime(s, "%Y-%m") succeeds
StrptimeOk(s) ==
    /\ Len(s) \in {6, 7}
    /\ IsDigits(SubSeq(s, 1, 4))
    /\ s[5] = 45
    /\ IsDigits(SubSeq(s, 6, Len(s)))
    /\ Num(SubSeq(s, 6, Len(s))) \in 1..12

Strptime(s) == [y |-> Num(SubSeq(s, 1, 4)), m |-> Num(SubSeq(s, 6, Len(s))),
                d |-> 1]

\* mutant: the month wraps around but the year is not borrowed
SubMonths_NoBorrow(dt, k) ==
    LET month == dt.m - (k % 12)
    IN  [y |-> dt.y - (k \div 12),
         m |-> IF month < 1 THEN month + 12 ELSE month, d |-> dt.d]

\* dt - relativedelta(months=k), k >= 0
SubMonths(dt, k) ==
    LET years  == k \div 12
        months == k % 12
        year   == dt.y - years
        month  == dt.m - months
    IN  IF month < 1 THEN [y |-> year - 1, m |-> month + 12, d |-> dt.d]
        ELSE [y |-> year, m |-> month, d |-> dt.d]

\* start_date.strftime("%Y-%m")
strftime_ym(t) == Fmt4(t.y) \o Dash \o Fmt2(t.m)

Ok(df) == [exc |-> "", df |-> df]
Raise(e) == [exc |-> e, df |-> <<>>]

\* columns : the column names of the frame; df : its rows
filter_by_yrmo_retention(columns, df, months_to_retain) ==
    IF df = <<>> \/ "YRMO" \notin columns THEN Ok(df)
    ELSE LET max_yrmo == SeriesMax(Column(df, "YRMO"))
         IN  IF max_yrmo = NaN THEN Ok(df)
             ELSE IF ~StrptimeOk(max_yrmo) THEN Raise("ValueError")
             ELSE LET max_date   == Strptime(max_yrmo)
                      start_date == SubMonths(max_date, months_to_retain - 1)
                      start_yrmo == strftime_ym(start_date)
                      Keep(r)    == r.YRMO # NaN /\ StrGE(r.YRMO, start_yrmo)
                  IN  Ok(SelectSeq(df, Keep))

\* config.get("filters", {}).get("months_to_retain", 7); 0 stands for absent
MonthsOf(c) == IF c.months_to_retain = 0 THEN DefaultMonths
               ELSE c.months_to_retain

\* ---------------------------------------------------------------- names
NA == "<NA>"

\* the text of a name of the action vocabulary, for Python's str ordering
Chars(s) ==
    CASE s = "Clicked"   -> <<67, 108, 105, 99, 107, 101, 100>>
      [] s = "Delivered" -> <<68, 101, 108, 105, 118, 101, 114, 101, 100>>
      [] s = "Opened"    -> <<79, 112, 101, 110, 101, 100>>
      [] s = "Sent"      -> <<83, 101, 110, 116>>
      [] s = "Viewed"    -> <<86, 105, 101, 119, 101, 100>>
      [] OTHER           -> <<>>

\* str(n) of a non-negative integer
RECURSIVE DecStr(_)
DecStr(n) == IF n < 10 THEN Digit(n) ELSE DecStr(n \div 10) \o Digit(n % 10)

CanonCols == {"HCP_ID", "ACTIVITY_DATE", "YRMO", "ID", "CHANNEL", "ACTION"}

Canon(df) == [i \in 1..Len(df) |-> Project(df[i], CanonCols)]

\* the result of a run: the exception that escaped ("" for none), the table
\* written to the output file, and the frame as it was after add_yrmo
Result(exc, df, dated) == [exc |-> exc, df |-> df, dated |-> dated]

\* ---------------------------------------------------------------- call.py
call_run(df, config) ==
    LET product == config.product_external_id_vod__c
        Match(r) == r.product_external_id_vod__c = product
        df1 == IF product # "" THEN SelectSeq(df, Match) ELSE df
        dates == to_datetime_series(Column(df1, "call_date_vod__c"))
        df2 == [i \in 1..Len(df1) |->
                  SetCol([HCP_ID        |-> df1[i].child_account_identifier_vod__c,
                          ACTIVITY_DATE |-> dates[i],
                          ID            |-> df1[i].call2_vod_id,
                          CHANNEL       |-> df1[i].recordtype_name],
                         "ACTION", df1[i].Action)]
        df3 == add_yrmo(df2, "datetime64")
        res == filter_by_yrmo_retention(CanonCols, df3, MonthsOf(config))
    IN  Result(res.exc, Canon(res.df), df3)

\* ---------------------------------------------------------------- events.py
\* mutant: the rows without channel are kept
dropna_channel_Kept(df) == df

\* df.dropna(subset=["channel"]).reset_index(drop=True)
dropna_channel(df) ==
    LET HasChannel(r) == r.channel # NA
    IN  SelectSeq(df, HasChannel)

events_run(df, config) ==
    LET df1 == dropna_channel(df)
        dates == to_datetime_series(Column(df1, "ACTVY_STRT_DT"))
        df2 == [i \in 1..Len(df1) |->
                  [df1[i] EXCEPT !.ACTVY_STRT_DT = dates[i]]]
        product_id == config.product_id
        Match(r) == DecStr(r.product_id) = product_id
        df3 == IF product_id # <<>> THEN SelectSeq(df2, Match) ELSE df2
        df4 == [i \in 1..Len(df3) |->
                  SetCol([ID            |-> df3[i].conference_id,
                          HCP_ID        |-> df3[i].customer_id,
                          APIMS_ID      |-> df3[i].product_id,
                          INDCTN_ID     |-> df3[i].indication_id,
                          CHANNEL       |-> df3[i].channel,
                          ACTIVITY_DATE |-> df3[i].ACTVY_STRT_DT],
                         "ACTION", df3[i].action)]
        df5 == add_yrmo(df4, "datetime64")
        res == filter_by_yrmo_retention(CanonCols \cup {"APIMS_ID", "INDCTN_ID"},
                                        df5, MonthsOf(config))
    IN  Result(res.exc, Canon(res.df), df5)

\* ---------------------------------------------------------------- vae.py
TsLT(a, b) ==
    \/ a.y < b.y
    \/ a.y = b.y /\ a.m < b.m
    \/ a.y = b.y /\ a.m = b.m /\ a.d < b.d

\* ascending order of one datetime key, NaT last (na_position="last")
DateLT(a, b) == a # NaT /\ (b = NaT \/ TsLT(a, b))

\* a sorts strictly before b on (customer_id, yrmoda, sevc_id, action)
VaeKeyLT(a, b) ==
    \/ a.customer_id < b.customer_id
    \/ /\ a.customer_id = b.customer_id
       /\ \/ DateLT(a.yrmoda, b.yrmoda)
          \/ /\ a.yrmoda = b.yrmoda
             /\ \/ a.sevc_id < b.sevc_id
                \/ /\ a.sevc_id = b.sevc_id
                   /\ StrLT(Chars(a.action), Chars(b.action))

RECURSIVE VaeInsert(_, _)
VaeInsert(sorted, r) ==
    IF sorted = <<>> THEN <<r>>
    ELSE IF VaeKeyLT(r, Head(sorted)) THEN <<r>> \o sorted
    ELSE <<Head(sorted)>> \o VaeInsert(Tail(sorted), r)

\* mutant: the sort is not applied in place
sort_values_NotInPlace(df) == df

\* DataFrame.sort_values(by=[...], ascending=True): stable on equal keys
RECURSIVE sort_values(_)
sort_values(df) ==
    IF df = <<>> THEN <<>>
    ELSE VaeInsert(sort_values(SubSeq(df, 1, Len(df) - 1)), df[Len(df)])

vae_run(df, config) ==
    LET product_id == config.product_id
        Match(r) == r.product_id = product_id
        df1 == IF product_id # 0 THEN SelectSeq(df, Match) ELSE df
        dates == to_datetime_series(Column(df1, "activity_date"))
        df2 == [i \in 1..Len(df1) |-> SetCol(df1[i], "yrmoda", dates[i])]
        df3 == sort_values(df2)
        df4 == [i \in 1..Len(df3) |->
                  SetCol([HCP_ID        |-> df3[i].customer_id,
                          ACTIVITY_DATE |-> df3[i].activity_date,
                          ID            |-> df3[i].sevc_id,
                          CHANNEL       |-> "LMMR",
                          product_id    |-> df3[i].product_id,
                          yrmoda        |-> df3[i].yrmoda],
                         "ACTION", df3[i].action)]
        df5 == add_yrmo(df4, "object")
        res == filter_by_yrmo_retention(CanonCols \cup {"product_id", "yrmoda"},
                                        df5, MonthsOf(config))
    IN  Result(res.exc, Canon(res.df), df5)

\* ---------------------------------------------------------------- edetail.py
\* mutant: the JSTREAM code is mapped to the NMO channel
CHANNEL_MAPPING_JstreamAsNmo(c) ==
    CASE c = "M3"      -> "EMAIL_M3_MR_KUN"
      [] c = "M3-Quiz" -> "EMAIL_M3_QUIZ"
      [] c = "M3-MM"   -> "EMAIL_M3_MM"
      [] c = "NMO"     -> "EDETAIL_NMO"
      [] c = "M3-OPD"  -> "EMAIL_M3_OPD"
      [] c = "CARENET" -> "EDETAIL_CARENET"
      [] c = "JSTREAM" -> "EDETAIL_NMO"
      [] c = "Medpeer" -> "EDETAIL_MEDPEER"
      [] OTHER         -> c

CHANNEL_MAPPING(c) ==
    CASE c = "M3"      -> "EMAIL_M3_MR_KUN"
      [] c = "M3-Quiz" -> "EMAIL_M3_QUIZ"
      [] c = "M3-MM"   -> "EMAIL_M3_MM"
      [] c = "NMO"     -> "EDETAIL_NMO"
      [] c = "M3-OPD"  -> "EMAIL_M3_OPD"
      [] c = "CARENET" -> "EDETAIL_CARENET"
      [] c = "JSTREAM" -> "EDETAIL_JSTREAM"
      [] c = "Medpeer" -> "EDETAIL_MEDPEER"
      [] OTHER         -> c

_normalize_edetail(df, product_name) ==
    LET df1 == [i \in 1..Len(df) |->
                  SetCol([CHANNEL       |-> CHANNEL_MAPPING(df[i].src_systm_cd),
                          ID            |-> df[i].dgtl_dtl_only_id,
                          ACTIVITY_DATE |->
                              strftime_ymd(to_datetime_mixed(df[i].activity_date)),
                          HCP_ID        |-> df[i].customer_id,
                          INDCTN_ID     |-> df[i].product_indication_id,
                          PRODUCT_NM    |-> df[i].product_name],
                         "ACTION",
                         IF df[i].action = "Sent" THEN "Delivered"
                         ELSE df[i].action)]
        Match(r) == r.PRODUCT_NM = product_name
    IN  IF product_name # "" THEN SelectSeq(df1, Match) ELSE df1

GroupCols == {"ACTIVITY_DATE", "HCP_ID", "ID", "CHANNEL"}

\* the index of pivot_table: the distinct key tuples; a row with a missing
\* key value belongs to no group (groupby drops missing keys)
Groups(df) ==
    {Project(df[i], GroupCols) :
        i \in {j \in 1..Len(df) : df[j].ACTIVITY_DATE # NaN}}

\* Python's str ordering of the channel names of the two pivoted families
ChannelRank(c) ==
    CASE c = "EDETAIL_CARENET" -> 1
      [] c = "EDETAIL_MEDPEER" -> 2
      [] c = "EMAIL_M3_MM"     -> 3
      [] c = "EMAIL_M3_MR_KUN" -> 4
      [] c = "EMAIL_M3_OPD"    -> 5
      [] c = "EMAIL_M3_QUIZ"   -> 6
      [] OTHER                 -> 0

GroupLT(a, b) ==
    \/ StrLT(a.ACTIVITY_DATE, b.ACTIVITY_DATE)
    \/ /\ a.ACTIVITY_DATE = b.ACTIVITY_DATE
       /\ \/ a.HCP_ID < b.HCP_ID
          \/ /\ a.HCP_ID = b.HCP_ID
             /\ \/ a.ID < b.ID
                \/ a.ID = b.ID /\ ChannelRank(a.CHANNEL) < ChannelRank(b.CHANNEL)

\* the pivot index in its sorted order
RECURSIVE SortedGroups(_)
SortedGroups(S) ==
    IF S = {} THEN <<>>
    ELSE LET k == CHOOSE g \in S : \A o \in S \ {g} : GroupLT(g, o)
         IN  <<k>> \o SortedGroups(S \ {k})

\* aggfunc="count" of PRODUCT_NM for one group and one ACTION column
PivotCount(df, key, action) ==
    Cardinality({i \in 1..Len(df) :
        /\ df[i].ACTIVITY_DATE # NaN
        /\ Project(df[i], GroupCols) = key
        /\ df[i]["ACTION"] = action
        /\ df[i].PRODUCT_NM # NA})

\* one value column of the melt (np.select on "count == 1"), the rows with an
\* empty ACTION removed, PRODUCT_NM set
MeltFlag(df, groups, action, product_name) ==
    LET Hit(k) == PivotCount(df, k, action) = 1
        hits == SelectSeq(groups, Hit)
    IN  [i \in 1..Len(hits) |->
            SetCol([ACTIVITY_DATE |-> hits[i].ACTIVITY_DATE,
                    HCP_ID        |-> hits[i].HCP_ID,
                    ID            |-> hits[i].ID,
                    CHANNEL       |-> hits[i].CHANNEL,
                    PRODUCT_NM    |-> product_name],
                   "ACTION", action)]

ListCol == {"ACTIVITY_DATE", "HCP_ID", "ID", "CHANNEL", "ACTION", "PRODUCT_NM"}

_build_ecare(edetail, product_name) ==
    LET IsEcare(r) == r.CHANNEL = "EDETAIL_CARENET" \/ r.CHANNEL = "EDETAIL_MEDPEER"
        ecare  == SelectSeq(edetail, IsEcare)
        groups == SortedGroups(Groups(ecare))
    IN  IF ecare = <<>> THEN ecare
        ELSE MeltFlag(ecare, groups, "Delivered", product_name)
             \o MeltFlag(ecare, groups, "Opened", product_name)

_build_m3(edetail, product_name) ==
    LET IsM3(r) == \/ r.CHANNEL = "EMAIL_M3_MR_KUN" \/ r.CHANNEL = "EMAIL_M3_OPD"
                   \/ r.CHANNEL = "EMAIL_M3_QUIZ" \/ r.CHANNEL = "EMAIL_M3_MM"
        m3     == SelectSeq(edetail, IsM3)
        groups == SortedGroups(Groups(m3))
    IN  IF m3 = <<>> THEN m3
        ELSE MeltFlag(m3, groups, "Delivered", product_name)
             \o MeltFlag(m3, groups, "Opened", product_name)
             \o MeltFlag(m3, groups, "Clicked", product_name)

\* mutant: the NMO rows are passed through without the action remap
_build_nmo_Unmapped(edetail) ==
    LET IsNmo(r) == r.CHANNEL = "EDETAIL_NMO"
    IN  SelectSeq(edetail, IsNmo)

_build_nmo(edetail) ==
    LET IsNmo(r) == r.CHANNEL = "EDETAIL_NMO"
        nmo == SelectSeq(edetail, IsNmo)
    IN  [i \in 1..Len(nmo) |->
            SetCol(nmo[i], "ACTION",
                   IF nmo[i]["ACTION"] = "Viewed" THEN "Opened"
                   ELSE nmo[i]["ACTION"])]

\* mutant: the filter keeps the Delivered rows instead of the delivered IDs
delivered_linkage_RowsOnly(edetail_all) ==
    LET IsDelivered(r) == r["ACTION"] = "Delivered"
    IN  SelectSeq(edetail_all, IsDelivered)

\* finalp: the rows whose ID has a Delivered row in the same table
delivered_linkage(edetail_all) ==
    LET delivered_ids == {edetail_all[i].ID :
                            i \in {j \in 1..Len(edetail_all) :
                                     edetail_all[j]["ACTION"] = "Delivered"}}
        Linked(r) == r.ID \in delivered_ids
    IN  SelectSeq(edetail_all, Linked)

\* config.get("filters", {}).get("product_name", "EBG"); NA stands for absent
ProductNameOf(c) == IF c.product_name = NA THEN "EBG" ELSE c.product_name

edetail_run(df, config) ==
    LET product_name == ProductNameOf(config)
        edetail == _normalize_edetail(df, product_name)
        ecare1  == _build_ecare(edetail, product_name)
        m2      == _build_m3(edetail, product_name)
        nmo     == _build_nmo(edetail)
        edetail_all == ecare1 \o m2 \o [i \in 1..Len(nmo) |-> Project(nmo[i], ListCol)]
        dated   == add_yrmo(edetail_all, "object")
        res     == filter_by_yrmo_retention(ListCol \cup {"YRMO"}, dated,
                                            MonthsOf(config))
        finalp  == delivered_linkage(res.df)
    IN  [exc |-> res.exc, df |-> Canon(finalp), dated |-> dated,
         retained |-> res.df, edetail |-> edetail,
         ecare1 |-> ecare1, m2 |-> m2, nmo |-> nmo]

\* ---------------------------------------------------------------- inputs
SeqsUpTo(S, n) == UNION {[1..k -> S] : k \in 0..n}

MonthChoices == 0..MaxMonths

\* the months the sample dates fall in: a window across a year boundary
SampleMonths == {<<2023, 11>>, <<2023, 12>>, <<2024, 1>>, <<2024, 2>>}

YrmoTexts == {PeriodStr(Timestamp(ym[1], ym[2], 1)) : ym \in SampleMonths}

SampleDates == {Timestamp(ym[1], ym[2], 15) : ym \in SampleMonths}

\* frames on which add_yrmo and then filter_by_yrmo_retention are called:
\* a datetime column with NaT for the dates that did not parse
DatedFrames ==
    {[columns |-> {"ID", "ACTIVITY_DATE"}, df |-> t] :
        t \in SeqsUpTo([ID : 1..2, ACTIVITY_DATE : SampleDates \cup {NaT}],
                       MaxRows)}

\* frames handed to filter_by_yrmo_retention directly: a YRMO column of
\* missing values only, or no YRMO column
BareFrames ==
    {[columns |-> {"ID", "YRMO"}, df |-> t] :
        t \in SeqsUpTo([ID : 1..2, YRMO : {NaN}], MaxRows)}
    \cup {[columns |-> {"ID"}, df |-> t] : t \in SeqsUpTo([ID : 1..2], MaxRows)}

\* ---------------------------------------------------------------- filter spec
InitFilter ==
    /\ name = "filter"
    /\ \/ raw \in DatedFrames /\ pc = "add_yrmo" /\ mid = <<>>
       \/ raw \in BareFrames /\ pc = "filter" /\ mid = raw
    /\ cfg \in [months_to_retain : MonthChoices]
    /\ out = <<>>
    /\ err = ""
    /\ files = <<>>
    /\ completed = <<>>

AddYrmo ==
    /\ pc = "add_yrmo" /\ name = "filter"
    /\ mid' = [columns |-> raw.columns \cup {"YRMO"},
               df |-> add_yrmo(raw.df, "datetime64")]
    /\ pc' = "filter"
    /\ UNCHANGED <<name, raw, cfg, out, err, files, completed>>

FilterCall ==
    /\ pc = "filter" /\ name = "filter"
    /\ LET r == filter_by_yrmo_retention(mid.columns, mid.df, MonthsOf(cfg))
       IN  /\ out' = r.df
           /\ err' = r.exc
    /\ pc' = "done"
    /\ UNCHANGED <<name, raw, cfg, mid, files, completed>>

NextFilter == AddYrmo \/ FilterCall

SpecFilter == InitFilter /\ [][NextFilter]_vars

\* ---------------------------------------------------------------- normaliser inputs
OldDate == Timestamp(2023, 12, 20)
MidDate == Timestamp(2024, 1, 5)
NewDate == Timestamp(2024, 1, 15)

\* month-first text of a date, one of the forms format="mixed" accepts
UsText(t) == Fmt2(t.m) \o Slash \o Fmt2(t.d) \o Slash \o Fmt4(t.y)

\* a text no date parser accepts
BadText == <<120, 120>>

\* months_to_retain absent (the default applies) or 1
NormMonths == {0, 1}

New == strftime_ymd(NewDate)
Mid == strftime_ymd(MidDate)
Old == strftime_ymd(OldDate)

CallRows ==
    [product_external_id_vod__c : {"P1", "P2"},
     call_date_vod__c : {Old, New, BadText},
     child_account_identifier_vod__c : {1},
     call2_vod_id : {1},
     recordtype_name : {"Call"},
     Action : {"Detail"}]

EventsRow(S) ==
    [channel : S.channel, conference_id : {1}, customer_id : {1},
     product_id : S.product, indication_id : {1}, action : {"Attended"},
     ACTVY_STRT_DT : S.date]

\* rows with and without a channel, over valid and unparseable dates
EventsRowsChannel ==
    EventsRow([channel |-> {"Seminar", NA}, product |-> {101},
               date |-> {Old, New, BadText}])

\* rows with and without a channel, over two products
EventsRowsProduct ==
    EventsRow([channel |-> {"Seminar", NA}, product |-> {101, 102},
               date |-> {Old, New}])

\* two products, the dates of one file written in two forms
EventsRowsFormat ==
    EventsRow([channel |-> {"Seminar"}, product |-> {101, 102},
               date |-> {New, UsText(NewDate)}])

VaeRow(S) ==
    [customer_id : S.customer, activity_date : S.date, sevc_id : S.sevc,
     action : S.action, product_id : S.product]

\* first sort keys: customer, then date (with unparseable dates)
VaeRowsByDate ==
    VaeRow([customer |-> 1..2, date |-> {Old, New, BadText}, sevc |-> {1},
            action |-> {"Viewed"}, product |-> {7}])

\* last sort keys: date within a month, service event, action
VaeRowsByKey ==
    VaeRow([customer |-> {1}, date |-> {Mid, New}, sevc |-> 1..2,
            action |-> {"Opened", "Viewed"}, product |-> {7}])

\* two products over two customers and two months
VaeRowsProduct ==
    VaeRow([customer |-> 1..2, date |-> {Old, New}, sevc |-> {1},
            action |-> {"Viewed"}, product |-> {7, 8}])

EdetailRow(S) ==
    [src_systm_cd : S.src, dgtl_dtl_only_id : S.id, action : S.action,
     activity_date : S.date, customer_id : {1}, product_indication_id : {1},
     product_name : S.product]

\* the Ecare family: counts of 0, 1 and 2 per action, an unparseable date
EdetailRowsEcare ==
    EdetailRow([src |-> {"CARENET", "Medpeer"}, id |-> {1},
                action |-> {"Sent", "Opened"}, date |-> {New, BadText},
                product |-> {"EBG"}])

\* the M3 family: its three actions, an unparseable date
EdetailRowsM3 ==
    EdetailRow([src |-> {"M3"}, id |-> {1},
                action |-> {"Sent", "Opened", "Clicked"},
                date |-> {UsText(NewDate), BadText}, product |-> {"EBG"}])

\* two IDs with and without delivery, across two channel families
EdetailRowsLinkage ==
    EdetailRow([src |-> {"NMO", "Medpeer"}, id |-> 1..2,
                action |-> {"Sent", "Opened"}, date |-> {New},
                product |-> {"EBG"}])

\* two IDs with and without delivery, inside and outside the window
EdetailRowsWindow ==
    EdetailRow([src |-> {"NMO"}, id |-> 1..2, action |-> {"Sent", "Opened"},
                date |-> {Old, UsText(NewDate)}, product |-> {"EBG"}])

\* the pass-through family, a channel no builder reads, an unmapped code
EdetailRowsOther ==
    EdetailRow([src |-> {"NMO", "JSTREAM", "WEB"}, id |-> {1},
                action |-> {"Sent", "Viewed"}, date |-> {New},
                product |-> {"EBG"}])
    \cup EdetailRow([src |-> {"NMO"}, id |-> {1}, action |-> {"Viewed"},
                     date |-> {BadText}, product |-> {"EBG"}])

\* an old NMO delivery next to later rows that yield no builder row: a
\* channel no builder reads, an Ecare delivery that may repeat or lack a date
EdetailRowsAnchor ==
    EdetailRow([src |-> {"NMO"}, id |-> {1}, action |-> {"Sent"},
                date |-> {Old}, product |-> {"EBG"}])
    \cup EdetailRow([src |-> {"JSTREAM"}, id |-> {1}, action |-> {"Sent"},
                     date |-> {New}, product |-> {"EBG"}])
    \cup EdetailRow([src |-> {"CARENET"}, id |-> {1}, action |-> {"Sent"},
                     date |-> {New, BadText}, product |-> {"EBG"}])

\* two products over two months
EdetailRowsProduct ==
    EdetailRow([src |-> {"NMO", "CARENET"}, id |-> {1}, action |-> {"Sent"},
                date |-> {Old, New}, product |-> {"EBG", "OTH"}])

Normalizers == {"call", "edetail", "events", "vae"}

\* ---------------------------------------------------------------- normaliser spec
Tables(rows) == SeqsUpTo(rows, MaxRows)

\* a normaliser's inputs: each family of rows with the configurations that
\* bear on it (a product filter where products differ, a one-month window
\* where months differ)
InitNorm ==
    /\ pc = "start"
    /\ \/ /\ name = "call"
          /\ raw \in Tables(CallRows)
          /\ cfg \in [product_external_id_vod__c : {"", "P1"},
                      months_to_retain : NormMonths]
       \/ /\ name = "events"
          /\ \/ /\ raw \in Tables(EventsRowsChannel)
                /\ cfg \in [product_id : {<<>>}, months_to_retain : NormMonths]
             \/ /\ raw \in Tables(EventsRowsFormat)
                /\ cfg \in [product_id : {<<>>, DecStr(101)},
                            months_to_retain : {0}]
             \/ /\ raw \in Tables(EventsRowsProduct)
                /\ cfg \in [product_id : {<<>>, DecStr(101)},
                            months_to_retain : NormMonths]
       \/ /\ name = "vae"
          /\ \/ /\ raw \in Tables(VaeRowsByDate)
                /\ cfg \in [product_id : {0}, months_to_retain : NormMonths]
             \/ /\ raw \in Tables(VaeRowsByKey)
                /\ cfg \in [product_id : {0}, months_to_retain : {0}]
             \/ /\ raw \in Tables(VaeRowsProduct)
                /\ cfg \in [product_id : {0, 7}, months_to_retain : NormMonths]
       \/ /\ name = "edetail"
          /\ \/ /\ raw \in Tables(EdetailRowsEcare) \cup Tables(EdetailRowsM3)
                           \cup Tables(EdetailRowsLinkage)
                           \cup Tables(EdetailRowsOther)
                /\ cfg \in [product_name : {NA}, months_to_retain : {0}]
             \/ /\ raw \in Tables(EdetailRowsWindow)
                /\ cfg \in [product_name : {NA}, months_to_retain : NormMonths]
             \/ /\ raw \in Tables(EdetailRowsAnchor)
                /\ cfg \in [product_name : {NA}, months_to_retain : {1}]
             \/ /\ raw \in Tables(EdetailRowsProduct)
                /\ cfg \in [product_name : {NA, ""},
                            months_to_retain : NormMonths]
    /\ mid = <<>>
    /\ out = <<>>
    /\ err = ""
    /\ files = <<>>
    /\ completed = <<>>

\* the end of a run(config): the output is written unless an exception escaped
Finish(r, m) ==
    /\ out' = r.df
    /\ err' = r.exc
    /\ mid' = m
    /\ pc' = "done"
    /\ UNCHANGED <<name, raw, cfg, files, completed>>

CallRun ==
    /\ pc = "start" /\ name = "call"
    /\ LET r == call_run(raw, cfg) IN Finish(r, [dated |-> r.dated])

EventsRun ==
    /\ pc = "start" /\ name = "events"
    /\ LET r == events_run(raw, cfg) IN Finish(r, [dated |-> r.dated])

VaeRun ==
    /\ pc = "start" /\ name = "vae"
    /\ LET r == vae_run(raw, cfg) IN Finish(r, [dated |-> r.dated])

EdetailRun ==
    /\ pc = "start" /\ name = "edetail"
    /\ LET r == edetail_run(raw, cfg)
       IN  Finish(r, [dated |-> r.dated, retained |-> r.retained,
                      edetail |-> r.edetail, ecare1 |-> r.ecare1,
                      m2 |-> r.m2, nmo |-> r.nmo])

NextNorm == CallRun \/ EventsRun \/ VaeRun \/ EdetailRun

SpecNorm == InitNorm /\ [][NextNorm]_vars

\* ---------------------------------------------------------------- hco_promotion.py
\* DataFrame.to_csv of a normaliser's output: a datetime64 cell is written as
\* its date text, NaT as a missing value; the other cells as they are
to_csv(df, dtype) ==
    [i \in 1..Len(df) |->
        IF dtype = "datetime64"
        THEN [df[i] EXCEPT !.ACTIVITY_DATE = strftime_ymd(@)]
        ELSE df[i]]

\* mutant: the frames are concatenated in the order the pipelines ran
hco_promotion_run_RunOrder(event, edetail, call, vae) ==
    call \o edetail \o event \o vae

\* pd.concat([event, edetail, call, vae], ignore_index=True)
hco_promotion_run(event, edetail, call, vae) ==
    event \o edetail \o call \o vae

MaxMergeRows == 3

\* rows of a written canonical table, two per source
MergeRows(channel) ==
    {SetCol([HCP_ID |-> 1, ACTIVITY_DATE |-> New, YRMO |-> PeriodStr(NewDate),
             ID |-> id, CHANNEL |-> channel], "ACTION", "Opened") : id \in 1..2}

InitMerge ==
    /\ pc = "start"
    /\ name = "hco"
    /\ raw \in [event   : SeqsUpTo(MergeRows("Seminar"), MaxMergeRows),
                edetail : SeqsUpTo(MergeRows("EDETAIL_NMO"), MaxMergeRows),
                call    : SeqsUpTo(MergeRows("Call"), MaxMergeRows),
                vae     : SeqsUpTo(MergeRows("LMMR"), MaxMergeRows)]
    /\ cfg = <<>>
    /\ mid = <<>>
    /\ out = <<>>
    /\ err = ""
    /\ files = <<>>
    /\ completed = <<>>

HcoRun ==
    /\ pc = "start" /\ name = "hco"
    /\ out' = hco_promotion_run(raw.event, raw.edetail, raw.call, raw.vae)
    /\ pc' = "done"
    /\ UNCHANGED <<name, raw, cfg, mid, err, files, completed>>

NextMerge == HcoRun

SpecMerge == InitMerge /\ [][NextMerge]_vars

\* ---------------------------------------------------------------- main.py
\* the order of the loop of main()
PIPELINES == <<"call", "edetail", "events", "vae", "hco">>

IndexOf(p) == CHOOSE k \in 1..Len(PIPELINES) : PIPELINES[k] = p

\* the position of main() after run_pipeline(p) returned
AfterReturn(p) ==
    IF IndexOf(p) = Len(PIPELINES) THEN "exit" ELSE PIPELINES[IndexOf(p) + 1]

\* mutant: the except clause logs the error and does not re-raise
AfterException_Swallowed(p) == AfterReturn(p)

\* the position of main() after run_pipeline(p) raised: the except clause
\* re-raises and nothing catches it
AfterException(p) == "failed"

Absent == [state |-> "absent", df |-> <<>>]
Stale == [state |-> "stale", df |-> <<>>]
Written(df) == [state |-> "written", df |-> df]

\* the configuration files of the repository are not part of the sources:
\* every pipeline runs with the defaults of its config.get calls
DefaultConfig(p) ==
    CASE p = "call"    -> [product_external_id_vod__c |-> "", months_to_retain |-> 0]
      [] p = "edetail" -> [product_name |-> NA, months_to_retain |-> 0]
      [] p = "events"  -> [product_id |-> <<>>, months_to_retain |-> 0]
      [] p = "vae"     -> [product_id |-> 0, months_to_retain |-> 0]
      [] OTHER         -> <<>>

\* the outcome of a run(config) that returned r: df.to_csv writes the table
Saved(r, dtype) == [exc |-> r.exc, df |-> to_csv(r.df, dtype)]

\* the run(config) of pipeline p on the input files and the output files
Dispatch(p) ==
    CASE p = "call"    -> Saved(call_run(raw.call.df, DefaultConfig(p)), "datetime64")
      [] p = "edetail" -> Saved(edetail_run(raw.edetail.df, DefaultConfig(p)), "object")
      [] p = "events"  -> Saved(events_run(raw.events.df, DefaultConfig(p)), "datetime64")
      [] p = "vae"     -> Saved(vae_run(raw.vae.df, DefaultConfig(p)), "object")
      [] p = "hco"     ->
            IF \E q \in {"events", "edetail", "call", "vae"} :
                  files[q].state = "absent"
            THEN Raise("FileNotFoundError")
            ELSE Ok(hco_promotion_run(files.events.df, files.edetail.df,
                                      files.call.df, files.vae.df))

\* the outcome of run_pipeline(p): load_config, then run(config) with its
\* read_table and its to_csv
run_pipeline(p) ==
    IF cfg.unreadable = p THEN Raise("FileNotFoundError")
    ELSE IF p # "hco" /\ ~raw[p].exists THEN Raise("FileNotFoundError")
    ELSE Dispatch(p)

\* an input file: missing, or a table of at most one row
InputFiles(rows) ==
    {[exists |-> FALSE, df |-> <<>>], [exists |-> TRUE, df |-> <<>>]}
    \cup {[exists |-> TRUE, df |-> <<r>>] : r \in rows}

InitMain ==
    /\ pc = "clean"
    /\ name = "main"
    /\ raw \in [call    : InputFiles({r \in CallRows :
                              /\ r.product_external_id_vod__c = "P1"
                              /\ r.call_date_vod__c # Old}),
                edetail : InputFiles({r \in EdetailRowsOther :
                              r.src_systm_cd = "NMO" /\ r.action = "Viewed"}),
                events  : InputFiles({r \in EventsRowsChannel :
                              r.channel # NA /\ r.ACTVY_STRT_DT # Old}),
                vae     : InputFiles({r \in VaeRowsByDate :
                              r.customer_id = 1 /\ r.activity_date # Old})]
    /\ cfg \in [unreadable : {""} \cup {PIPELINES[k] : k \in 1..Len(PIPELINES)}]
    /\ files \in [{PIPELINES[k] : k \in 1..Len(PIPELINES)} -> {Stale}]
                 \cup {[q \in {PIPELINES[k] : k \in 1..Len(PIPELINES)} |-> Absent]}
    /\ mid = <<>>
    /\ out = <<>>
    /\ err = ""
    /\ completed = <<>>

\* main(): every file of the outputs directory but pipeline.log is deleted
Clean ==
    /\ pc = "clean" /\ name = "main"
    /\ files' = [q \in DOMAIN files |-> Absent]
    /\ pc' = PIPELINES[1]
    /\ UNCHANGED <<name, raw, cfg, mid, out, err, completed>>

\* run_pipeline(pc, ...) ended with outcome r
Returned(r) ==
    \/ /\ r.exc = ""
       /\ files' = [files EXCEPT ![pc] = Written(r.df)]
       /\ out' = IF pc = "hco" THEN r.df ELSE out
       /\ completed' = Append(completed, pc)
       /\ pc' = AfterReturn(pc)
       /\ UNCHANGED err
    \/ /\ r.exc # ""
       /\ err' = r.exc
       /\ pc' = AfterException(pc)
       /\ UNCHANGED <<out, files, completed>>

\* one iteration of the loop of main: run_pipeline(pc, ...) returns, the
\* output written and "Completed" logged, or raises, the error logged and
\* raised again
RunPipeline ==
    /\ name = "main" /\ pc \in {PIPELINES[k] : k \in 1..Len(PIPELINES)}
    /\ Returned(run_pipeline(pc))
    /\ UNCHANGED <<name, raw, cfg, mid>>

NextMain == Clean \/ RunPipeline

SpecMain == InitMain /\ [][NextMain]_vars

\* ---------------------------------------------------------------- C1, C2
\* s is a zero-padded "YYYY-MM" text
ValidYM(s) ==
    /\ Len(s) = 7 /\ s[5] = 45
    /\ IsDigits(SubSeq(s, 1, 4)) /\ IsDigits(SubSeq(s, 6, 7))
    /\ Num(SubSeq(s, 6, 7)) \in 1..12

\* months since year 0 of a valid YRMO text
MonthIndex(s) == 12 * Num(SubSeq(s, 1, 4)) + Num(SubSeq(s, 6, 7))

\* the frame has a YRMO column whose greatest value is a valid month
HasValidMax(f) ==
    /\ "YRMO" \in f.columns
    /\ \E i \in 1..Len(f.df) :
          /\ f.df[i].YRMO # NaN /\ ValidYM(f.df[i].YRMO)
          /\ \A j \in 1..Len(f.df) :
                f.df[j].YRMO # NaN => ~StrLT(f.df[i].YRMO, f.df[j].YRMO)

MaxIndex(df) ==
    LET idx == {MonthIndex(df[i].YRMO) : i \in 1..Len(df)}
    IN  CHOOSE n \in idx : \A k \in idx : k <= n

FilterDone == name = "filter" /\ pc = "done"

\* C1: on a non-empty table whose greatest YRMO is a valid month, the filter
\* returns exactly the rows whose month lies in [max - (N-1), max], in their
\* original order; the output keeps the input's maximum, and for N = 1 only
\* the rows of the maximum month remain.
C1_RetentionWindow ==
    (FilterDone /\ mid.df # <<>> /\ HasValidMax(mid)) =>
        LET N  == MonthsOf(cfg)
            mx == MaxIndex(mid.df)
            InWindow(r) == MonthIndex(r.YRMO) \in (mx - (N - 1))..mx
        IN  /\ err = ""
            /\ out = SelectSeq(mid.df, InWindow)
            /\ out # <<>> /\ MaxIndex(out) = mx
            /\ N = 1 => \A i \in 1..Len(out) : MonthIndex(out[i].YRMO) = mx

\* C1 witness: a window that reaches back across the year boundary keeps a
\* row of the earlier year and drops an older one
C1_Witness ==
    /\ FilterDone /\ err = "" /\ HasValidMax(mid)
    /\ Len(out) < Len(mid.df)
    /\ \E i, j \in 1..Len(out) :
          SubSeq(out[i].YRMO, 1, 4) # SubSeq(out[j].YRMO, 1, 4)

\* C2: the filter fails open: an empty table, a table without YRMO column, or
\* one whose max(YRMO) is missing or unparseable (all dates null) comes back
\* unchanged and no error is raised.
C2_FailOpen ==
    (FilterDone /\ (mid.df = <<>> \/ ~HasValidMax(mid))) =>
        (err = "" /\ out = mid.df)

\* ---------------------------------------------------------------- C3 .. C10
NormDone(n) == name = n /\ pc = "done"

\* C3: the Edetail output is exactly the rows of the retention-filtered table
\* whose ID has a Delivered row in that table, in their order; every ID of
\* the output has a Delivered row in the output.
C3_DeliveredLinkage ==
    (NormDone("edetail") /\ err = "") =>
        LET T == mid.retained
            HasDelivered(id) ==
                \E j \in 1..Len(T) : T[j].ID = id /\ T[j]["ACTION"] = "Delivered"
            Kept(r) == HasDelivered(r.ID)
        IN  /\ out = Canon(SelectSeq(T, Kept))
            /\ \A i \in 1..Len(out) : \E j \in 1..Len(out) :
                  out[j].ID = out[i].ID /\ out[j]["ACTION"] = "Delivered"

\* C3 witness: ID 1 has a Delivered and an Opened row, both kept; ID 2 has
\* only an Opened row in the retained table, dropped
C3_Witness ==
    /\ NormDone("edetail") /\ err = ""
    /\ \E i, j \in 1..Len(out) :
          /\ out[i].ID = 1 /\ out[i]["ACTION"] = "Delivered"
          /\ out[j].ID = 1 /\ out[j]["ACTION"] = "Opened"
    /\ \E k \in 1..Len(mid.retained) :
          mid.retained[k].ID = 2 /\ mid.retained[k]["ACTION"] = "Opened"
    /\ \A i \in 1..Len(out) : out[i].ID = 1

EcareChannels == {"EDETAIL_CARENET", "EDETAIL_MEDPEER"}
M3Channels == {"EMAIL_M3_MR_KUN", "EMAIL_M3_OPD", "EMAIL_M3_QUIZ", "EMAIL_M3_MM"}

\* rows of table t in the group of row r with ACTION a
InGroup(t, r, a) ==
    {j \in 1..Len(t) :
        /\ t[j].ACTIVITY_DATE = r.ACTIVITY_DATE /\ t[j].HCP_ID = r.HCP_ID
        /\ t[j].ID = r.ID /\ t[j].CHANNEL = r.CHANNEL
        /\ t[j]["ACTION"] = a}

\* the builder output b has one row of action a for the group of r when the
\* normalised table has exactly one such row, and none otherwise
ExactlyOne(b, r, a) ==
    Cardinality(InGroup(b, r, a)) =
        IF Cardinality(InGroup(mid.edetail, r, a)) = 1 THEN 1 ELSE 0

\* C4: for every group (ACTIVITY_DATE, HCP_ID, ID, CHANNEL) of an Ecare
\* channel and each action of {Delivered, Opened}, and every group of an M3
\* channel and each action of {Delivered, Opened, Clicked}, the builder emits
\* exactly one row of that action when the group has exactly one raw row of
\* it, and none otherwise.
C4_ExactlyOne ==
    NormDone("edetail") =>
        \A i \in 1..Len(mid.edetail) :
            LET r == mid.edetail[i]
            IN  /\ r.CHANNEL \in EcareChannels =>
                      \A a \in {"Delivered", "Opened"} : ExactlyOne(mid.ecare1, r, a)
                /\ r.CHANNEL \in M3Channels =>
                      \A a \in {"Delivered", "Opened", "Clicked"} :
                          ExactlyOne(mid.m2, r, a)

\* C4, supporting: the same rule restricted to the groups whose date parsed
C4_ParsedGroups ==
    NormDone("edetail") =>
        \A i \in 1..Len(mid.edetail) :
            LET r == mid.edetail[i]
            IN  r.ACTIVITY_DATE # NaN =>
                /\ r.CHANNEL \in EcareChannels =>
                      \A a \in {"Delivered", "Opened"} : ExactlyOne(mid.ecare1, r, a)
                /\ r.CHANNEL \in M3Channels =>
                      \A a \in {"Delivered", "Opened", "Clicked"} :
                          ExactlyOne(mid.m2, r, a)

\* C6: a call date that cannot be parsed is not fatal: call.run completes
\* without raising, the date is null and date parsing drops no row.
C6_BadDateNonFatal ==
    (NormDone("call")
        /\ \E i \in 1..Len(raw) : to_datetime(raw[i].call_date_vod__c) = NaT) =>
        LET Selected(r) ==
                cfg.product_external_id_vod__c \in {"", r.product_external_id_vod__c}
        IN  /\ err = ""
            /\ Len(mid.dated) = Len(SelectSeq(raw, Selected))

\* the text a date cell has in the written table
DateText(v) == IF name \in {"call", "events"} THEN strftime_ymd(v) ELSE v

\* C8: in every row a normaliser emits, YRMO is the "YYYY-MM" truncation of
\* the row's own ACTIVITY_DATE, and the row is a row of the table as add_yrmo
\* left it (no later step changes ACTIVITY_DATE or YRMO).
C8_YrmoTruncation ==
    (name \in Normalizers /\ pc = "done") =>
        \A i \in 1..Len(out) :
            /\ DateText(out[i].ACTIVITY_DATE) # NaN
            /\ out[i].YRMO = SubSeq(DateText(out[i].ACTIVITY_DATE), 1, 7)
            /\ \E j \in 1..Len(mid.dated) : out[i] = Project(mid.dated[j], CanonCols)

\* C8 witness: an Edetail run whose raw date was month-first text emits rows
\* of two different months
C8_Witness ==
    /\ NormDone("edetail") /\ err = ""
    /\ \E k \in 1..Len(raw) : raw[k].activity_date = UsText(NewDate)
    /\ \E i, j \in 1..Len(out) : out[i].YRMO # out[j].YRMO

RECURSIVE IsSubSeq(_, _)
IsSubSeq(a, b) ==
    IF a = <<>> THEN TRUE
    ELSE IF b = <<>> THEN FALSE
    ELSE IF Head(a) = Head(b) THEN IsSubSeq(Tail(a), Tail(b))
    ELSE IsSubSeq(a, Tail(b))

\* C9: the Events output has no row with a null CHANNEL, and its rows are
\* rows of the input that have a channel, in their order: a row without
\* channel is excluded whatever its date and product.
C9_NullChannelExcluded ==
    NormDone("events") =>
        LET HasChannel(r) == r.channel # NA
            With == SelectSeq(raw, HasChannel)
        IN  /\ \A i \in 1..Len(out) : out[i].CHANNEL # NA
            /\ IsSubSeq([i \in 1..Len(out) |-> out[i].ACTIVITY_DATE],
                        to_datetime_series(Column(With, "ACTVY_STRT_DT")))

\* C9 witness: a row without channel, of the newest month and of the selected
\* product, is absent from a non-empty output
C9_Witness ==
    /\ NormDone("events") /\ err = "" /\ out # <<>>
    /\ \E k \in 1..Len(raw) :
          /\ raw[k].channel = NA /\ raw[k].ACTVY_STRT_DT = New
          /\ cfg.product_id \in {<<>>, DecStr(raw[k].product_id)}
    /\ Len(out) < Len(raw)

\* a date text as a number that orders as the calendar does
DateNum(s) == LET t == ParseIso(s) IN 10000 * t.y + 100 * t.m + t.d

\* row a does not sort after row b on (HCP_ID, date, ID, ACTION)
CanonKeyLE(a, b) ==
    LET ka == <<a.HCP_ID, DateNum(a.ACTIVITY_DATE), a.ID>>
        kb == <<b.HCP_ID, DateNum(b.ACTIVITY_DATE), b.ID>>
    IN  \/ \E n \in 1..3 : ka[n] < kb[n] /\ \A k \in 1..(n - 1) : ka[k] = kb[k]
        \/ ka = kb /\ ~StrLT(Chars(b["ACTION"]), Chars(a["ACTION"]))

\* C10: every VAE output row has CHANNEL "LMMR", the rows are in ascending
\* order of (customer id, parsed date, service-event id, action), and the
\* filters only remove rows of the sorted table.
C10_VaeSorted ==
    NormDone("vae") =>
        /\ \A i \in 1..Len(out) : out[i].CHANNEL = "LMMR"
        /\ \A i, j \in 1..Len(out) : i < j => CanonKeyLE(out[i], out[j])
        /\ IsSubSeq(out, Canon(mid.dated))

\* C10 witness: the input was out of order, a row was removed and at least
\* two rows of different keys remain
C10_Witness ==
    /\ NormDone("vae") /\ err = ""
    /\ Len(out) >= 2 /\ Len(out) < Len(raw)
    /\ out[1] # out[2]
    /\ \E i, j \in 1..Len(raw) : i < j /\ VaeKeyLT(
          SetCol(raw[j], "yrmoda", to_datetime(raw[j].activity_date)),
          SetCol(raw[i], "yrmoda", to_datetime(raw[i].activity_date)))

\* ---------------------------------------------------------------- C5, C7
Prefix(k) == SubSeq(PIPELINES, 1, k)

\* the pipelines have run one after another in the fixed order: the completed
\* ones are a prefix of the order, the one about to start is the next, and
\* the outputs written so far are exactly theirs
InOrder ==
    name = "main" =>
        /\ \E k \in 0..Len(PIPELINES) : completed = Prefix(k)
        /\ pc \in {PIPELINES[k] : k \in 1..Len(PIPELINES)} =>
              completed = Prefix(IndexOf(pc) - 1)
        /\ pc # "clean" =>
              \A q \in DOMAIN files :
                  (files[q].state = "written") <=>
                      (\E k \in 1..Len(completed) : completed[k] = q)
        /\ (\E k \in 1..Len(completed) : completed[k] = "hco") =>
              /\ \A q \in {"call", "edetail", "events", "vae"} :
                    files[q].state = "written"
              /\ out = files.events.df \o files.edetail.df
                       \o files.call.df \o files.vae.df
        /\ (err # "") <=> (pc = "failed")

\* once a pipeline has failed nothing more is run or written
StopsOnFailure ==
    (name = "main" /\ pc = "failed") =>
        /\ pc' = "failed"
        /\ completed' = completed /\ files' = files /\ out' = out

\* C5: main runs Call, Edetail, Events, VAE, Merge one after another in that
\* order; a pipeline starts only after every earlier one completed, Merge
\* reads outputs written in this run, and after a failure no later pipeline
\* executes.
C5_SequentialOrder == [](InOrder) /\ [][StopsOnFailure]_vars

\* C5 witness: Edetail failed after Call completed, while the inputs of the
\* later pipelines were there
C5_Witness ==
    /\ name = "main" /\ pc = "failed"
    /\ completed = <<"call">>
    /\ raw.events.exists /\ raw.vae.exists
    /\ cfg.unreadable = ""

MergeSources == <<"event", "edetail", "call", "vae">>

\* rows of the sources before source k
Offset(k) ==
    IF k = 1 THEN 0
    ELSE IF k = 2 THEN Len(raw.event)
    ELSE IF k = 3 THEN Len(raw.event) + Len(raw.edetail)
    ELSE Len(raw.event) + Len(raw.edetail) + Len(raw.call)

\* C7: the merge output is the rows of Events, then Edetail, then Call, then
\* VAE, each source's rows in their order and unchanged, nothing removed: its
\* length is the sum of the four lengths.
C7_OrderedUnion ==
    (name = "hco" /\ pc = "done") =>
        /\ Len(out) = Len(raw.event) + Len(raw.edetail) + Len(raw.call)
                      + Len(raw.vae)
        /\ \A k \in 1..4 : \A i \in 1..Len(raw[MergeSources[k]]) :
              out[Offset(k) + i] = raw[MergeSources[k]][i]

\* C7 witness: two Events rows and three Call rows, with a repeated row
C7_Witness ==
    /\ name = "hco" /\ pc = "done"
    /\ Len(raw.event) = 2 /\ Len(raw.call) = 3 /\ Len(out) >= 5
    /\ raw.call[1] = raw.call[2]

\* ---------------------------------------------------------------- C11
\* C11: the NMO builder outputs one row for every normalised row of channel
\* EDETAIL_NMO, in order, repeated rows included; each output row has the
\* fields of its input row with the same values, except that ACTION "Viewed"
\* is "Opened"; no row of another channel is in its output.
C11_NmoPassThrough ==
    NormDone("edetail") =>
        LET IsNmo(r) == r.CHANNEL = "EDETAIL_NMO"
            src == SelectSeq(mid.edetail, IsNmo)
        IN  /\ Len(mid.nmo) = Cardinality({j \in 1..Len(mid.edetail) :
                                  mid.edetail[j].CHANNEL = "EDETAIL_NMO"})
            /\ Len(mid.nmo) = Len(src)
            /\ \A i \in 1..Len(mid.nmo) :
                  /\ DOMAIN mid.nmo[i] = DOMAIN src[i]
                  /\ \A c \in DOMAIN src[i] \ {"ACTION"} :
                        mid.nmo[i][c] = src[i][c]
                  /\ mid.nmo[i]["ACTION"] =
                        IF src[i]["ACTION"] = "Viewed" THEN "Opened"
                        ELSE src[i]["ACTION"]
                  /\ mid.nmo[i].CHANNEL = "EDETAIL_NMO"

\* C11 witness: two identical NMO rows with action Viewed next to a row of
\* another channel: both are in the builder's output, as Opened
C11_Witness ==
    /\ NormDone("edetail")
    /\ Len(mid.nmo) = 2 /\ Len(mid.edetail) = 3
    /\ mid.nmo[1] = mid.nmo[2]
    /\ mid.nmo[1]["ACTION"] = "Opened"
    /\ \E k \in 1..Len(raw) :
          raw[k].src_systm_cd = "NMO" /\ raw[k].action = "Viewed"

\* ---------------------------------------------------------------- C12
BuilderChannels == EcareChannels \cup M3Channels \cup {"EDETAIL_NMO"}

\* the channel codes of the raw table that CHANNEL_MAPPING sends to a channel
\* a builder reads
ConsumedCodes ==
    {"M3", "M3-Quiz", "M3-MM", "M3-OPD", "CARENET", "Medpeer", "NMO"}

RunOn(t) ==
    LET r == CASE name = "call"    -> call_run(t, cfg)
               [] name = "events"  -> events_run(t, cfg)
               [] name = "vae"     -> vae_run(t, cfg)
               [] name = "edetail" -> edetail_run(t, cfg)
    IN  [exc |-> r.exc, df |-> r.df]

\* the row of the combined Edetail table a raw row would be
BuilderRow(r) ==
    LET ch == CHANNEL_MAPPING(r.src_systm_cd)
        a  == IF r.action = "Sent" THEN "Delivered"
              ELSE IF r.action = "Viewed" /\ ch = "EDETAIL_NMO" THEN "Opened"
              ELSE r.action
    IN  [CHANNEL |-> ch, ID |-> r.dgtl_dtl_only_id, HCP_ID |-> r.customer_id,
         DATE |-> strftime_ymd(to_datetime_mixed(r.activity_date)), ACT |-> a]

\* raw row r is removed by an exclusion step that precedes add_yrmo
Excluded(r) ==
    CASE name = "call" ->
            /\ cfg.product_external_id_vod__c # ""
            /\ r.product_external_id_vod__c # cfg.product_external_id_vod__c
      [] name = "events" ->
            \/ r.channel = NA
            \/ cfg.product_id # <<>> /\ DecStr(r.product_id) # cfg.product_id
      [] name = "vae" ->
            cfg.product_id # 0 /\ r.product_id # cfg.product_id
      [] name = "edetail" ->
            \/ ProductNameOf(cfg) # "" /\ r.product_name # ProductNameOf(cfg)
            \/ ~\E i \in 1..Len(mid.dated) :
                  LET d == mid.dated[i]
                  IN  BuilderRow(r) =
                        [CHANNEL |-> d.CHANNEL, ID |-> d.ID, HCP_ID |-> d.HCP_ID,
                         DATE |-> d.ACTIVITY_DATE, ACT |-> d["ACTION"]]

\* the Edetail rows excluded before any counting: by the product filter or
\* by having a channel no builder reads
ExcludedUncounted(r) ==
    /\ Excluded(r)
    /\ name = "edetail" =>
          \/ ProductNameOf(cfg) # "" /\ r.product_name # ProductNameOf(cfg)
          \/ CHANNEL_MAPPING(r.src_systm_cd) \notin BuilderChannels

RECURSIVE Without(_, _, _)
\* table t from row i on, without the rows at the positions of S
Without(t, S, i) ==
    IF i > Len(t) THEN <<>>
    ELSE (IF i \in S THEN <<>> ELSE <<t[i]>>) \o Without(t, S, i + 1)

\* the outcome of the run is the one on the table without the rows at S
SameWithout(S) ==
    LET r == RunOn(Without(raw, S, 1)) IN out = r.df /\ err = r.exc

\* C13: the retention window is anchored on surviving rows only: the outcome
\* of a normaliser is the one of the run without the rows that an exclusion
\* step removes (all of them, or any of those removed by the product filter,
\* the null-channel drop or an unread channel), whatever their dates.
C13_AnchoredOnSurvivors ==
    (name \in Normalizers /\ pc = "done") =>
        /\ SameWithout({i \in 1..Len(raw) : Excluded(raw[i])})
        /\ \A S \in SUBSET {i \in 1..Len(raw) : ExcludedUncounted(raw[i])} :
              SameWithout(S)

\* C13, supporting: the same for Call, VAE and Edetail, and for the rows of
\* Events that have no channel
C13_ExceptEventsProduct ==
    (name \in Normalizers /\ pc = "done") =>
        IF name = "events"
        THEN \A S \in SUBSET {i \in 1..Len(raw) : raw[i].channel = NA} :
                SameWithout(S)
        ELSE /\ SameWithout({i \in 1..Len(raw) : Excluded(raw[i])})
             /\ \A S \in SUBSET {i \in 1..Len(raw) : ExcludedUncounted(raw[i])} :
                   SameWithout(S)

====
